---- MODULE Spec2Model ----
(***************************************************************************)
(* Model of AI-Forge-Studio/python_bridge/model_runner.py: the ModelCache  *)
(* registry, the ModelRunner orchestrator and the module-level bridge      *)
(* entry points, called by host threads.  Each action is one step of a     *)
(* call between two accesses to shared state (the global _model_runner,    *)
(* a ModelCache dict, the accelerator's memory counter).                   *)
(***************************************************************************)
EXTENDS Integers, Sequences, FiniteSets, TLC

\* ---------------------------------------------------------------- bounds
MaxCalls == 4

\* ------------------------------------------------------------- input sets
Threads == {"t1", "t2"}
ModelIds == {"m1", "m2"}
Devices == {"cuda", "cpu"}
ModelTypeNames == {"text_to_image", "text_generation"}
ElapsedMs == {3}
MiB == 1048576
MemLevels == {0, 1572864}
TotalMemory == 8388608

\* ------------------------------------------------------- python constants
TEXT_TO_IMAGE == "text_to_image"
NoPipe == 0
NoImage == <<>>
NoSeed == -1
EmptyDict == [k \in {} |-> 0]
DefaultWidth == 512
DefaultHeight == 512

\* dataclass InferenceConfig: the field names its constructor accepts
ConfigFields ==
  {"model_id", "prompt", "negative_prompt", "num_inference_steps",
   "guidance_scale", "width", "height", "seed", "batch_size", "precision",
   "use_attention_slicing", "use_cpu_offload"}

\* dataclass InferenceResult, as constructed by InferenceResult(success=False)
InferenceResult ==
  [success |-> FALSE, error_message |-> <<>>, image_data |-> NoImage,
   text_output |-> <<>>, inference_time |-> 0, memory_used |-> 0]

\* the config_json strings the host sends: json_ok says json.loads succeeds
\* and yields a dict, dict is that dict
Requests ==
  {[json_ok |-> TRUE, dict |-> [k \in {"model_id"} |-> m]] : m \in ModelIds}
  \cup
  {[json_ok |-> TRUE,
    dict |-> [model_id |-> "m1", seed |-> 7, width |-> 64, height |-> 64]],
   [json_ok |-> TRUE, dict |-> [model_id |-> "m1", steps |-> 1]],
   [json_ok |-> TRUE, dict |-> [k \in {"prompt"} |-> "x"]],
   [json_ok |-> FALSE, dict |-> EmptyDict]}

VARIABLES
  TORCH_AVAILABLE,      \* module flag set by "import torch"
  DIFFUSERS_AVAILABLE,  \* module flag set by "from diffusers import ..."
  cuda_is_available,    \* torch.cuda.is_available()
  allocated,            \* torch.cuda.memory_allocated(), bytes
  runners,              \* the ModelRunner objects constructed so far
  _model_runner,        \* the global: index into runners, 0 = None
  ncalls,               \* number of bridge calls started
  frame,                \* per thread: the locals of its call in progress
  ret                   \* what the step just taken returned to the host

vars == <<TORCH_AVAILABLE, DIFFUSERS_AVAILABLE, cuda_is_available, allocated,
          runners, _model_runner, ncalls, frame, ret>>

env == <<TORCH_AVAILABLE, DIFFUSERS_AVAILABLE, cuda_is_available>>

\* ------------------------------------------------------------ dict helpers
SetItem(d, k, v) == [x \in (DOMAIN d) \cup {k} |-> IF x = k THEN v ELSE d[x]]

DelItem(d, k) == [x \in (DOMAIN d) \ {k} |-> d[x]]

\* ----------------------------------------------------------- ModelCache
\* ModelCache.__init__
ModelCache == [models |-> EmptyDict, model_types |-> EmptyDict]

\* ModelCache.has
has(cache, model_id) == model_id \in DOMAIN cache.models

\* ModelCache.get: dict.get, None when absent
get(cache, model_id) ==
  IF model_id \in DOMAIN cache.models THEN cache.models[model_id] ELSE NoPipe

\* ModelCache.add, first statement: self.models[model_id] = model
add_models_stmt(cache, model_id, model) ==
  [cache EXCEPT !.models = SetItem(@, model_id, model)]

\* ModelCache.add, second statement: self.model_types[model_id] = model_type
add_model_types_stmt(cache, model_id, model_type) ==
  [cache EXCEPT !.model_types = SetItem(@, model_id, model_type)]

\* del_models_stmt that deletes nothing
del_models_stmt_keeps(cache, model_id) == cache

\* ModelCache.remove, "del self.models[model_id]"
del_models_stmt(cache, model_id) ==
  [cache EXCEPT !.models = DelItem(@, model_id)]

\* del_model_types_stmt that clears the whole dict
del_model_types_stmt_clears(cache, model_id) ==
  [cache EXCEPT !.model_types = EmptyDict]

\* ModelCache.remove, "del self.model_types[model_id]"
del_model_types_stmt(cache, model_id) ==
  [cache EXCEPT !.model_types = DelItem(@, model_id)]

\* the cache of runner r (an empty one for None)
Cache(r) == IF r = 0 THEN ModelCache ELSE runners[r].cache

\* ----------------------------------------------------- frames and returns
NoOp == [name |-> "none", model_id |-> "", model_type |-> "",
         device |-> "", req |-> [json_ok |-> FALSE, dict |-> EmptyDict]]

\* the locals of a call: pc is its position, op the entry point and its
\* arguments, self the runner it read from _model_runner, pre the cache of
\* self when the call began, trace the external calls it has made
IdleFrame ==
  [pc |-> "idle", op |-> NoOp, self |-> 0, pipe |-> NoPipe, mem_before |-> 0,
   result |-> InferenceResult, trace |-> <<>>, pre |-> ModelCache]

NoRet ==
  [thread |-> "", raised |-> FALSE, ok |-> FALSE, resp |-> EmptyDict,
   frame |-> IdleFrame, post |-> ModelCache]

\* the pipe objects referenced by a cache or by a local
PipesInUse ==
  {frame[t].pipe : t \in Threads} \cup
  UNION {{runners[r].cache.models[i] : i \in DOMAIN runners[r].cache.models} :
           r \in DOMAIN runners}

\* a newly constructed pipe object: an address that is not in use
NewPipe == CHOOSE n \in 1..(Cardinality(PipesInUse) + 1) : n \notin PipesInUse

\* ---------------------------------------------------------------- Init
Init ==
  /\ TORCH_AVAILABLE \in BOOLEAN
  /\ DIFFUSERS_AVAILABLE \in BOOLEAN
  /\ cuda_is_available \in BOOLEAN
  /\ (cuda_is_available => TORCH_AVAILABLE)
  /\ allocated = 0
  /\ runners = <<>>
  /\ _model_runner = 0
  /\ ncalls = 0
  /\ frame = [t \in Threads |-> IdleFrame]
  /\ ret = NoRet

\* a thread enters a bridge entry point: the frame of the new call; the
\* cache before the call is recorded when snap is set
Begin(o, snap) ==
  [IdleFrame EXCEPT !.op = o, !.self = _model_runner,
                    !.pre = IF snap THEN Cache(_model_runner) ELSE ModelCache]

\* host threads are anonymous: a call runs on t1 when t1 is free, and on
\* another thread when it arrives while t1 is in a call
CanBegin(t) ==
  /\ frame[t].pc = "idle"
  /\ ncalls < MaxCalls
  /\ t # "t1" => frame["t1"].pc # "idle"

\* thread t goes on with frame f; nothing is returned to the host
Goto(t, f) ==
  /\ frame' = [frame EXCEPT ![t] = f]
  /\ ret' = NoRet

\* the call of thread t ends with frame f: its frame is popped, and the host
\* has its outcome r; post is the cache of self as the call left it
Return(t, f, r) ==
  /\ frame' = [frame EXCEPT ![t] = IdleFrame]
  /\ ret' = [r EXCEPT !.thread = t, !.frame = f,
                      !.post = IF f.self = 0 THEN ModelCache
                               ELSE runners'[f.self].cache]

\* the call returns the bool b
Bool(b) == [NoRet EXCEPT !.ok = b]

\* the call returns the JSON object d
Json(d) == [NoRet EXCEPT !.resp = d]

\* an exception propagates out of the call to the host
Raised == [NoRet EXCEPT !.raised = TRUE]

\* f with the external calls "events" appended to its trace
Log(f, events) == [f EXCEPT !.trace = @ \o events]

\* ------------------------------------------------------------- initialize
\* ModelRunner.__init__(device): the object constructed
ModelRunner(device) ==
  [device |-> IF device = "cuda" /\ ~cuda_is_available THEN "cpu" ELSE device,
   cache |-> ModelCache]

\* ModelRunner.__init__ raises: "torch" is an unbound name when the import
\* failed, and it is evaluated only when device == "cuda"
ModelRunnerRaises(device) == device = "cuda" /\ ~TORCH_AVAILABLE

\* initialize(device)
initialize(t, device, snap) ==
  /\ CanBegin(t)
  /\ ncalls' = ncalls + 1
  /\ LET f == Begin([NoOp EXCEPT !.name = "initialize", !.device = device], snap)
     IN IF ModelRunnerRaises(device)
          THEN /\ UNCHANGED <<runners, _model_runner>>
               /\ Return(t, f, Bool(FALSE))
          ELSE /\ runners' = Append(runners, ModelRunner(device))
               /\ _model_runner' = Len(runners) + 1
               /\ Return(t, f, Bool(TRUE))
  /\ UNCHANGED <<env, allocated>>

\* ------------------------------------------------------------ load_model
\* load_model without the check of the library flags
load_model_unchecked(t, model_id, model_type, snap) ==
  /\ CanBegin(t)
  /\ ncalls' = ncalls + 1
  /\ UNCHANGED <<env, allocated, runners, _model_runner>>
  /\ LET f == Begin([NoOp EXCEPT !.name = "load_model", !.model_id = model_id,
                                !.model_type = model_type], snap)
     IN IF _model_runner = 0
          THEN Return(t, f, Bool(FALSE))
          ELSE IF model_type # TEXT_TO_IMAGE
            THEN Return(t, f, Bool(FALSE))
            ELSE Goto(t, [f EXCEPT !.pc = "from_pretrained"])

\* load_model that constructs a cpu orchestrator on demand when there is none
load_model_lazy_init(t, model_id, model_type, snap) ==
  /\ CanBegin(t)
  /\ ncalls' = ncalls + 1
  /\ UNCHANGED <<env, allocated>>
  /\ runners' = IF _model_runner = 0
                  THEN Append(runners, ModelRunner("cpu")) ELSE runners
  /\ _model_runner' = IF _model_runner = 0
                        THEN Len(runners) + 1 ELSE _model_runner
  /\ LET f == [Begin([NoOp EXCEPT !.name = "load_model",
                                  !.model_id = model_id,
                                  !.model_type = model_type], snap)
                 EXCEPT !.self = _model_runner']
     IN IF model_type # TEXT_TO_IMAGE
          THEN Return(t, f, Bool(FALSE))
          ELSE IF ~TORCH_AVAILABLE \/ ~DIFFUSERS_AVAILABLE
            THEN Return(t, f, Bool(FALSE))
            ELSE Goto(t, [f EXCEPT !.pc = "from_pretrained"])

\* load_model(model_path, model_id, model_type, precision), up to the try
\* block of ModelRunner.load_text_to_image_model; model_path and precision
\* only select what from_pretrained builds
load_model(t, model_id, model_type, snap) ==
  /\ CanBegin(t)
  /\ ncalls' = ncalls + 1
  /\ UNCHANGED <<env, allocated, runners, _model_runner>>
  /\ LET f == Begin([NoOp EXCEPT !.name = "load_model", !.model_id = model_id,
                                !.model_type = model_type], snap)
     IN IF _model_runner = 0
          THEN Return(t, f, Bool(FALSE))
          ELSE IF model_type # TEXT_TO_IMAGE
            THEN Return(t, f, Bool(FALSE))
            ELSE IF ~TORCH_AVAILABLE \/ ~DIFFUSERS_AVAILABLE
              THEN Return(t, f, Bool(FALSE))
              ELSE Goto(t, [f EXCEPT !.pc = "from_pretrained"])

\* a step of load that touches no shared state: the library call either
\* raises, which the except clause turns into "return False", or the call
\* goes on with frame f
LoadStep(t, raises, event, f) ==
  /\ UNCHANGED <<env, runners, _model_runner, ncalls>>
  /\ IF raises
       THEN Return(t, Log(frame[t], <<event>>), Bool(FALSE))
       ELSE Goto(t, f)

\* pipe = StableDiffusionPipeline.from_pretrained(...)
from_pretrained(t, raises) ==
  /\ frame[t].pc = "from_pretrained"
  /\ LoadStep(t, raises, "from_pretrained_raised",
              [frame[t] EXCEPT !.pipe = NewPipe, !.pc = "scheduler"])
  /\ UNCHANGED allocated

\* pipe.scheduler = DPMSolverMultistepScheduler.from_config(...)
scheduler(t, raises) ==
  /\ frame[t].pc = "scheduler"
  /\ LoadStep(t, raises, "scheduler_raised",
              [frame[t] EXCEPT !.pc = "to_device"])
  /\ UNCHANGED allocated

\* to_device that caches the pipe before it is moved
to_device_caches_first(t, raises, level) ==
  /\ frame[t].pc = "to_device"
  /\ allocated' = IF runners[frame[t].self].device = "cuda"
                    THEN level ELSE allocated
  /\ runners' = [runners EXCEPT ![frame[t].self].cache =
                   add_model_types_stmt(
                     add_models_stmt(@, frame[t].op.model_id, frame[t].pipe),
                     frame[t].op.model_id, TEXT_TO_IMAGE)]
  /\ UNCHANGED <<env, _model_runner, ncalls>>
  /\ IF raises
       THEN Return(t, Log(frame[t], <<"to_raised">>), Bool(FALSE))
       ELSE Goto(t, [frame[t] EXCEPT !.pc = "enable_attention_slicing"])

\* to_device that puts the runner on the cpu when the move raises
to_device_falls_back(t, raises, level) ==
  /\ frame[t].pc = "to_device"
  /\ allocated' = IF runners[frame[t].self].device = "cuda"
                    THEN level ELSE allocated
  /\ runners' = [runners EXCEPT ![frame[t].self].device =
                   IF raises THEN "cpu" ELSE @]
  /\ UNCHANGED <<env, _model_runner, ncalls>>
  /\ IF raises
       THEN Return(t, Log(frame[t], <<"to_raised">>), Bool(FALSE))
       ELSE Goto(t, [frame[t] EXCEPT !.pc = "enable_attention_slicing"])

\* pipe = pipe.to(self.device): on the accelerator the weights are allocated
to_device(t, raises, level) ==
  /\ frame[t].pc = "to_device"
  /\ allocated' = IF runners[frame[t].self].device = "cuda"
                    THEN level ELSE allocated
  /\ LoadStep(t, raises, "to_raised",
              [frame[t] EXCEPT !.pc = "enable_attention_slicing"])

\* pipe.enable_attention_slicing(): outside the inner try
enable_attention_slicing(t, raises) ==
  /\ frame[t].pc = "enable_attention_slicing"
  /\ LoadStep(t, raises, "attention_slicing_raised",
              [frame[t] EXCEPT !.pc = "enable_xformers"])
  /\ UNCHANGED allocated

\* if hasattr(pipe, 'enable_xformers_...'): try: ... except: warning
enable_xformers(t, hasattr, raises) ==
  /\ frame[t].pc = "enable_xformers"
  /\ LoadStep(t, FALSE, "",
              [Log(frame[t], IF hasattr /\ raises
                               THEN <<"xformers_raised">> ELSE <<>>)
                 EXCEPT !.pc = "add_models"])
  /\ UNCHANGED allocated

\* self.cache.add(model_id, pipe, ...), first statement
add_models(t) ==
  /\ frame[t].pc = "add_models"
  /\ runners' = [runners EXCEPT ![frame[t].self].cache =
                   add_models_stmt(@, frame[t].op.model_id, frame[t].pipe)]
  /\ Goto(t, [frame[t] EXCEPT !.pc = "add_model_types"])
  /\ UNCHANGED <<env, allocated, _model_runner, ncalls>>

\* self.cache.add, second statement, then "return True"
add_model_types(t) ==
  /\ frame[t].pc = "add_model_types"
  /\ runners' = [runners EXCEPT ![frame[t].self].cache =
                   add_model_types_stmt(@, frame[t].op.model_id, TEXT_TO_IMAGE)]
  /\ Return(t, frame[t], Bool(TRUE))
  /\ UNCHANGED <<env, allocated, _model_runner, ncalls>>

\* --------------------------------------------------------- generate_image
\* a constructor that ignores the keywords it does not know
ConfigRaises_ignores_unknown(d) == "model_id" \notin DOMAIN d

\* InferenceConfig(**config_dict) raises TypeError on an unexpected keyword
\* and on a missing model_id, the only field without a default
ConfigRaises(d) ==
  \/ ~(DOMAIN d \subseteq ConfigFields)
  \/ "model_id" \notin DOMAIN d

\* InferenceConfig(**config_dict): the fields the run depends on
Config(d) ==
  [model_id |-> d["model_id"],
   seed |-> IF "seed" \in DOMAIN d THEN d["seed"] ELSE NoSeed,
   width |-> IF "width" \in DOMAIN d THEN d["width"] ELSE DefaultWidth,
   height |-> IF "height" \in DOMAIN d THEN d["height"] ELSE DefaultHeight]

\* the response of the bridge's except clause and of its None check
ErrorJson(msg) == [success |-> FALSE, error |-> msg]

\* result_dict of the bridge generate_image, before the image is encoded
ResultDict(r) ==
  [success |-> r.success, error_message |-> r.error_message,
   inference_time |-> r.inference_time, memory_used |-> r.memory_used]

\* result_dict with the encoded image and its shape
WithImage(d, image_data) ==
  [k \in (DOMAIN d) \cup {"image_base64", "image_width", "image_height"} |->
     IF k = "image_base64" THEN <<"png", image_data>>
     ELSE IF k = "image_width" THEN image_data[2]
     ELSE IF k = "image_height" THEN image_data[1]
     ELSE d[k]]

\* lines 360-386 of the bridge: the response for the InferenceResult r
ToJson(r, encode_raises) ==
  IF r.image_data = NoImage
    THEN ResultDict(r)
    ELSE IF encode_raises
      THEN ErrorJson(<<"image encoding failed">>)
      ELSE WithImage(ResultDict(r), r.image_data)

\* the difference in MB rounded down instead of toward zero
MemoryUsed_floor(after, before) == (after - before) \div MiB

\* int(mem_after - mem_before), both in MB: truncation toward zero
MemoryUsed(after, before) ==
  IF after >= before THEN (after - before) \div MiB
                     ELSE -((before - after) \div MiB)

\* ModelRunner.generate_image returns f.result to the bridge, which
\* serialises it
ReturnResult(t, f, encode_raises) ==
  Return(t, f, Json(ToJson(f.result, encode_raises)))

\* an except clause that hands back what the run had produced so far
Except_partial_image(t, f, msg) ==
  ReturnResult(t, [f EXCEPT !.result.error_message = msg,
                            !.result.image_data = <<0, 0, 3>>], FALSE)

\* the except clause of ModelRunner.generate_image
Except(t, f, msg) ==
  ReturnResult(t, [f EXCEPT !.result.error_message = msg], FALSE)

\* bridge generate_image(config_json), up to the call of the orchestrator
generate_image(t, req, snap) ==
  /\ CanBegin(t)
  /\ ncalls' = ncalls + 1
  /\ UNCHANGED <<env, allocated, runners, _model_runner>>
  /\ LET bad == ~req.json_ok \/ ConfigRaises(req.dict)
         f == Begin([NoOp EXCEPT !.name = "generate_image", !.req = req,
                   !.model_id = IF bad THEN "" ELSE req.dict["model_id"]],
                    snap)
     IN IF _model_runner = 0
          THEN Return(t, f, Json(ErrorJson(<<"ModelRunner not initialized">>)))
          ELSE IF ~req.json_ok
            THEN Return(t, f, Json(ErrorJson(<<"JSONDecodeError">>)))
            ELSE IF ConfigRaises(req.dict)
              THEN Return(t, f, Json(ErrorJson(<<"TypeError">>)))
              ELSE Goto(t, [f EXCEPT !.pc = "has"])

\* generate_has without the early return
generate_has_unchecked(t) ==
  /\ frame[t].pc = "has"
  /\ UNCHANGED <<env, allocated, runners, _model_runner, ncalls>>
  /\ Goto(t, [frame[t] EXCEPT !.pc = "get"])

\* if not self.cache.has(config.model_id): ... return result
generate_has(t) ==
  /\ frame[t].pc = "has"
  /\ UNCHANGED <<env, allocated, runners, _model_runner, ncalls>>
  /\ IF has(Cache(frame[t].self), frame[t].op.model_id)
       THEN Goto(t, [frame[t] EXCEPT !.pc = "get"])
       ELSE Except(t, frame[t],
                   <<"Model not loaded: ", frame[t].op.model_id>>)

\* pipe = self.cache.get(config.model_id)
generate_get(t) ==
  /\ frame[t].pc = "get"
  /\ UNCHANGED <<env, allocated, runners, _model_runner, ncalls>>
  /\ Goto(t, [frame[t] EXCEPT
                !.pipe = get(Cache(frame[t].self), frame[t].op.model_id),
                !.pc = "mem_before"])

\* the seeded generator, then synchronize and the snapshot mem_before
generate_mem_before(t, seed_raises) ==
  /\ frame[t].pc = "mem_before"
  /\ UNCHANGED <<env, allocated, runners, _model_runner, ncalls>>
  /\ IF Config(frame[t].op.req.dict).seed # NoSeed /\ seed_raises
       THEN Except(t, frame[t], <<"generator fault">>)
       ELSE IF runners[frame[t].self].device = "cuda"
         THEN Goto(t, [Log(frame[t], <<"synchronize", "memory_allocated">>)
                         EXCEPT !.mem_before = allocated, !.pc = "pipe"])
         ELSE Goto(t, [frame[t] EXCEPT !.mem_before = 0, !.pc = "pipe"])

\* generate_pipe whose except clause drops the faulting model from the cache
generate_pipe_evicts(t, faults, level) ==
  /\ frame[t].pc = "pipe"
  /\ UNCHANGED <<env, _model_runner, ncalls>>
  /\ IF frame[t].pipe = NoPipe
       THEN /\ UNCHANGED <<allocated, runners>>
            /\ Except(t, frame[t], <<"'NoneType' object is not callable">>)
       ELSE /\ allocated' = IF runners[frame[t].self].device = "cuda"
                              THEN level ELSE allocated
            /\ IF faults
                 THEN /\ runners' =
                           [runners EXCEPT ![frame[t].self].cache =
                              del_model_types_stmt(
                                del_models_stmt(@, frame[t].op.model_id),
                                frame[t].op.model_id)]
                      /\ Except(t, Log(frame[t], <<"pipe">>),
                                <<"execution fault">>)
                 ELSE /\ UNCHANGED runners
                      /\ Goto(t, [Log(frame[t], <<"pipe">>)
                                    EXCEPT !.pc = "mem_after"])

\* output = pipe(...): calling None raises TypeError; the execution object
\* may fault; running on the accelerator moves its memory counter
generate_pipe(t, faults, level) ==
  /\ frame[t].pc = "pipe"
  /\ UNCHANGED <<env, runners, _model_runner, ncalls>>
  /\ IF frame[t].pipe = NoPipe
       THEN /\ UNCHANGED allocated
            /\ Except(t, frame[t], <<"'NoneType' object is not callable">>)
       ELSE /\ allocated' = IF runners[frame[t].self].device = "cuda"
                              THEN level ELSE allocated
            /\ IF faults
                 THEN Except(t, Log(frame[t], <<"pipe">>),
                             <<"execution fault">>)
                 ELSE Goto(t, [Log(frame[t], <<"pipe">>)
                                 EXCEPT !.pc = "mem_after"])

\* synchronize and the snapshot mem_after, the image, the statistics, and
\* the bridge's serialisation of the result
generate_mem_after(t, image_raises, elapsed, encode_raises) ==
  /\ frame[t].pc = "mem_after"
  /\ UNCHANGED <<env, allocated, runners, _model_runner, ncalls>>
  /\ LET cuda == runners[frame[t].self].device = "cuda"
         mem_after == IF cuda THEN allocated ELSE 0
         c == Config(frame[t].op.req.dict)
         f == Log(frame[t], IF cuda THEN <<"synchronize", "memory_allocated">>
                                    ELSE <<>>)
     IN IF image_raises
          THEN Except(t, f, <<"image fault">>)
          ELSE ReturnResult(t,
                 [f EXCEPT
                    !.result.image_data = <<c.height, c.width, 3>>,
                    !.result.inference_time = elapsed,
                    !.result.memory_used =
                       MemoryUsed(mem_after, frame[t].mem_before),
                    !.result.success = TRUE],
                 encode_raises)

\* ------------------------------------------------------------ unload_model
\* bridge unload_model(model_id), up to the call of the orchestrator
unload_model(t, model_id, snap) ==
  /\ CanBegin(t)
  /\ ncalls' = ncalls + 1
  /\ UNCHANGED <<env, allocated, runners, _model_runner>>
  /\ LET f == Begin([NoOp EXCEPT !.name = "unload_model",
                                 !.model_id = model_id], snap)
     IN IF _model_runner = 0
          THEN Return(t, f, Bool(FALSE))
          ELSE Goto(t, [f EXCEPT !.pc = "unload_has"])

\* if not self.cache.has(model_id): return False
unload_has(t) ==
  /\ frame[t].pc = "unload_has"
  /\ UNCHANGED <<env, allocated, runners, _model_runner, ncalls>>
  /\ IF has(Cache(frame[t].self), frame[t].op.model_id)
       THEN Goto(t, [frame[t] EXCEPT !.pc = "remove"])
       ELSE Return(t, frame[t], Bool(FALSE))

\* the empty_cache call at the end of ModelRunner.unload_model
EmptyCache(f) ==
  Log(f, IF runners[f.self].device = "cuda" /\ cuda_is_available
           THEN <<"empty_cache">> ELSE <<>>)

\* ModelCache.remove: "if model_id in self.models"; when it is not, remove
\* does nothing and unload_model goes on to return True
remove(t) ==
  /\ frame[t].pc = "remove"
  /\ UNCHANGED <<env, allocated, runners, _model_runner, ncalls>>
  /\ IF frame[t].op.model_id \in DOMAIN Cache(frame[t].self).models
       THEN Goto(t, [frame[t] EXCEPT !.pc = "del_models"])
       ELSE Return(t, EmptyCache(frame[t]), Bool(TRUE))

\* del self.models[model_id]: KeyError when the key is gone, and nothing
\* between here and the host catches it
del_models(t) ==
  /\ frame[t].pc = "del_models"
  /\ UNCHANGED <<env, allocated, _model_runner, ncalls>>
  /\ IF frame[t].op.model_id \in DOMAIN Cache(frame[t].self).models
       THEN /\ runners' = [runners EXCEPT ![frame[t].self].cache =
                             del_models_stmt(@, frame[t].op.model_id)]
            /\ Goto(t, [frame[t] EXCEPT !.pc = "del_model_types"])
       ELSE /\ UNCHANGED runners
            /\ Return(t, frame[t], Raised)

\* del self.model_types[model_id], then empty_cache and "return True"
del_model_types(t) ==
  /\ frame[t].pc = "del_model_types"
  /\ UNCHANGED <<env, allocated, _model_runner, ncalls>>
  /\ IF frame[t].op.model_id \in DOMAIN Cache(frame[t].self).model_types
       THEN /\ runners' = [runners EXCEPT ![frame[t].self].cache =
                             del_model_types_stmt(@, frame[t].op.model_id)]
            /\ Return(t, EmptyCache(frame[t]), Bool(TRUE))
       ELSE /\ UNCHANGED runners
            /\ Return(t, frame[t], Raised)

\* --------------------------------------------------------- get_memory_info
\* ModelRunner.get_memory_info: the counters in MB; level stands for the
\* reserved and peak counters, which are at least the allocated one
MemoryInfo(r, level) ==
  IF runners[r].device = "cuda" /\ cuda_is_available
    THEN [allocated |-> allocated \div MiB, reserved |-> level \div MiB,
          max_allocated |-> level \div MiB, total |-> TotalMemory \div MiB]
    ELSE [allocated |-> 0, reserved |-> 0, max_allocated |-> 0, total |-> 0]

\* bridge get_memory_info()
get_memory_info(t, level, snap) ==
  /\ CanBegin(t)
  /\ level >= allocated
  /\ ncalls' = ncalls + 1
  /\ UNCHANGED <<env, allocated, runners, _model_runner>>
  /\ LET f == Begin([NoOp EXCEPT !.name = "get_memory_info"], snap)
     IN IF _model_runner = 0
          THEN Return(t, f, Json(EmptyDict))
          ELSE Return(t, f, Json(MemoryInfo(_model_runner, level)))

\* ------------------------------------------------------------------ Next
\* the steps of thread t
Step(t, snap) ==
    \/ \E device \in Devices : initialize(t, device, snap)
    \/ \E model_id \in ModelIds, model_type \in ModelTypeNames :
         load_model(t, model_id, model_type, snap)
    \/ \E raises \in BOOLEAN : from_pretrained(t, raises)
    \/ \E raises \in BOOLEAN : scheduler(t, raises)
    \/ \E raises \in BOOLEAN, level \in MemLevels : to_device(t, raises, level)
    \/ \E raises \in BOOLEAN : enable_attention_slicing(t, raises)
    \/ \E hasattr \in BOOLEAN, raises \in BOOLEAN :
         enable_xformers(t, hasattr, raises)
    \/ add_models(t)
    \/ add_model_types(t)
    \/ \E req \in Requests : generate_image(t, req, snap)
    \/ generate_has(t)
    \/ generate_get(t)
    \/ \E seed_raises \in BOOLEAN : generate_mem_before(t, seed_raises)
    \/ \E faults \in BOOLEAN, level \in MemLevels :
         generate_pipe(t, faults, level)
    \/ \E image_raises \in BOOLEAN, elapsed \in ElapsedMs,
          encode_raises \in BOOLEAN :
         generate_mem_after(t, image_raises, elapsed, encode_raises)
    \/ \E model_id \in ModelIds : unload_model(t, model_id, snap)
    \/ unload_has(t)
    \/ remove(t)
    \/ del_models(t)
    \/ del_model_types(t)
    \/ \E level \in MemLevels : get_memory_info(t, level, snap)

\* host threads call the bridge concurrently
Next == \E t \in Threads : Step(t, FALSE)

Spec == Init /\ [][Next]_vars

\* one host thread calls the bridge: every call returns before the next
\* begins, and each call records the cache it found
SeqNext == Step("t1", TRUE)

SeqSpec == Init /\ [][SeqNext]_vars

\* ================================================================ claims
\* the step just taken returned from a call of entry point "name"
Returned(name) == ret.thread # "" /\ ret.frame.op.name = name

\* the events of a trace
Events(tr) == {tr[k] : k \in DOMAIN tr}

\* thread t is inside load's build-then-insert section
InLoad(t) == frame[t].op.name = "load_model" /\ frame[t].pc # "idle"

\* thread t is in generate between its handle lookup and the end of the
\* invocation of the execution object
InUse(t) ==
  /\ frame[t].op.name = "generate_image"
  /\ frame[t].pc \in {"get", "mem_before", "pipe"}

\* C1: sequential calls: when load_model(i) returns True the registry maps i
\* to the pipe that the call built, and when unload_model(i) returns True the
\* registry has no entry for i, however many loads of i came before.
C1_LoadInsertsUnloadRemoves ==
  /\ (Returned("load_model") /\ ret.ok) =>
       /\ has(ret.post, ret.frame.op.model_id)
       /\ get(ret.post, ret.frame.op.model_id) = ret.frame.pipe
       /\ ret.frame.pipe # NoPipe
  /\ (Returned("unload_model") /\ ret.ok) =>
       /\ ret.frame.op.model_id \notin DOMAIN ret.post.models
       /\ ret.frame.op.model_id \notin DOMAIN ret.post.model_types

\* Scenario D: the fourth call is a successful unload of i, and the registry
\* it found held nothing but i, mapped to pipe 2: a pipe built while pipe 1
\* was still referenced, so calls 1-3 were initialize, load(i), load(i).
C1_Witness ==
  /\ Returned("unload_model") /\ ret.ok
  /\ ncalls = 4
  /\ ret.frame.pre.models = (ret.frame.op.model_id :> 2)
  /\ ret.post.models = EmptyDict

\* C2: while a generate call on i is between its handle lookup and the end
\* of its invocation of the execution object, i's handle is in the registry
\* (no unload removes it mid-use).
C2_NoUnloadMidUse ==
  \A t \in Threads :
    InUse(t) => has(Cache(frame[t].self), frame[t].op.model_id)

\* C3: the build-then-insert sections of two loads under the same identifier
\* never overlap.
C3_LoadsSerialized ==
  \A t, u \in Threads :
    (t # u /\ InLoad(t) /\ InLoad(u) /\ frame[t].self = frame[u].self)
      => frame[t].op.model_id # frame[u].op.model_id

\* C4: a generate call that finds its identifier absent from the registry
\* returns at once: success is false, the message contains the identifier,
\* inference time and memory delta are 0, there is no image, no device call
\* and no invocation of an execution object was made, and the registry and
\* the memory counter are as they were.
C4_GenerateNotLoaded ==
  [][\A t \in Threads :
       (/\ frame[t].pc = "has"
        /\ frame[t].op.model_id \notin DOMAIN runners[frame[t].self].cache.models
        /\ frame'[t] # frame[t])
       => /\ ret'.thread = t
          /\ ret'.resp.success = FALSE
          /\ ret'.frame.result.success = FALSE
          /\ frame[t].op.model_id \in Events(ret'.frame.result.error_message)
          /\ ret'.resp.error_message = ret'.frame.result.error_message
          /\ ret'.frame.result.inference_time = 0
          /\ ret'.frame.result.memory_used = 0
          /\ ret'.frame.result.image_data = NoImage
          /\ "image_base64" \notin DOMAIN ret'.resp
          /\ ret'.frame.trace = <<>>
          /\ runners' = runners
          /\ allocated' = allocated]_vars

\* generate for "m1" failed as not loaded while another model was loaded
C4_Witness ==
  /\ Returned("generate_image")
  /\ ret.frame.pc = "has"
  /\ ret.frame.result.error_message = <<"Model not loaded: ", "m1">>
  /\ DOMAIN ret.post.models = {"m2"}

\* the step is the deletion of i from models by an unload of i
UnloadDeletes(i) ==
  \E t \in Threads :
    /\ frame[t].op.name = "unload_model"
    /\ frame[t].op.model_id = i
    /\ frame[t].pc = "del_models"
    /\ frame'[t] # frame[t]

\* C5: a handle in the registry that the bridge uses stays there until
\* unload_model(i) deletes it: every step other than the deletion by an
\* unload of i keeps i available.
C5_StaysUntilUnload ==
  [][\A i \in ModelIds :
       (has(Cache(_model_runner), i) /\ ~UnloadDeletes(i))
         => i \in DOMAIN runners'[_model_runner'].cache.models]_vars

\* the call that returned had the construction of its pipe raise
ConstructionRaised ==
  Events(ret.frame.trace) \cap
    {"from_pretrained_raised", "scheduler_raised", "to_raised"} # {}

\* C6: sequential calls: a load in which from_pretrained, the scheduler
\* replacement or the move to the device raises returns False and leaves
\* the registry exactly as the call found it.
C6_LoadFailureKeepsRegistry ==
  (Returned("load_model") /\ ConstructionRaised)
    => /\ ~ret.ok /\ ~ret.raised
       /\ ret.post = ret.frame.pre

\* the move to the device raised in a reload of an identifier that was loaded
C6_Witness ==
  /\ Returned("load_model")
  /\ ret.frame.trace = <<"to_raised">>
  /\ has(ret.frame.pre, ret.frame.op.model_id)
  /\ has(ret.post, ret.frame.op.model_id)

\* the load o asks for a capability that cannot be served
Unservable(o) ==
  \/ o.model_type # TEXT_TO_IMAGE
  \/ ~TORCH_AVAILABLE
  \/ ~DIFFUSERS_AVAILABLE

\* C7: sequential calls: a load for a capability the bridge does not
\* support, or whose libraries are absent, returns False in its first step,
\* builds no pipe, makes no library call and leaves the registry unchanged.
C7_UnservableLoadFails ==
  (Returned("load_model") /\ Unservable(ret.frame.op))
    => /\ ~ret.ok /\ ~ret.raised
       /\ ret.frame.pc = "idle"
       /\ ret.frame.pipe = NoPipe
       /\ ret.frame.trace = <<>>
       /\ ret.post = ret.frame.pre

\* a text_to_image load on an initialized bridge without the diffusers library
C7_Witness ==
  /\ Returned("load_model")
  /\ ret.frame.self # 0
  /\ ret.frame.op.model_type = TEXT_TO_IMAGE
  /\ TORCH_AVAILABLE /\ ~DIFFUSERS_AVAILABLE
  /\ ~ret.ok

\* the call that returned had an optimization fail to apply
OptimizationFailed ==
  Events(ret.frame.trace) \cap
    {"attention_slicing_raised", "xformers_raised"} # {}

\* C8: sequential calls: a load in which applying an optimization (attention
\* slicing or memory-efficient attention) failed returns True with the
\* handle in the registry.
C8_OptimizationsBestEffort ==
  (Returned("load_model") /\ OptimizationFailed)
    => ret.ok /\ has(ret.post, ret.frame.op.model_id)

\* C9: sequential calls: unload_model(i) raises nothing and returns True
\* exactly when the registry it found had i; when it returns False the
\* registry is as found; when it returns True the registry is as found
\* less i.
C9_UnloadContract ==
  Returned("unload_model")
    => LET i == ret.frame.op.model_id
           before == ret.frame.pre
       IN /\ ~ret.raised
          /\ ret.ok <=> has(before, i)
          /\ ~ret.ok => ret.post = before
          /\ ret.ok =>
               /\ ret.post.models = DelItem(before.models, i)
               /\ ret.post.model_types = DelItem(before.model_types, i)

\* a successful unload of one identifier while the other stays loaded
C9_Witness ==
  /\ Returned("unload_model") /\ ret.ok
  /\ DOMAIN ret.frame.pre.models = ModelIds
  /\ Cardinality(DOMAIN ret.post.models) = 1

\* C10: every result of generate with success=false has no image, and the
\* response carries none; a call that ends at the invocation of the
\* execution object ends with success=false and a message.
C10_FailureHasNoImage ==
  (Returned("generate_image") /\ ret.frame.pc # "idle")
    => LET r == ret.frame.result
       IN /\ ~r.success =>
               r.image_data = NoImage /\ "image_base64" \notin DOMAIN ret.resp
          /\ ret.frame.pc = "pipe" =>
               /\ ~r.success
               /\ r.error_message # <<>>
               /\ ret.resp.success = FALSE
               /\ ret.resp.error_message = r.error_message

\* the execution object was invoked and faulted
C10_Witness ==
  /\ Returned("generate_image")
  /\ ret.frame.pc = "pipe"
  /\ ret.frame.trace # <<>>
  /\ ret.frame.trace[Len(ret.frame.trace)] = "pipe"
  /\ ret.frame.result.error_message = <<"execution fault">>

\* C11: no call lets an exception escape to the host: whatever the
\* interleaving, the step that ends a call hands back a value.
C11_NoExceptionEscapes == ~ret.raised

\* C12: every response of the bridge's generate_image has the fields
\* "success" and "error_message".
C12_ResponseHasFlagAndMessage ==
  Returned("generate_image")
    => {"success", "error_message"} \subseteq DOMAIN ret.resp

\* the counters of DeviceInfo, as get_memory_info names them
DeviceInfoFields == {"allocated", "reserved", "max_allocated", "total"}

\* C13: get_memory_info called while _model_runner is None answers with
\* every counter present and zero.
C13_UninitializedMemoryInfoIsZero ==
  (Returned("get_memory_info") /\ ret.frame.self = 0)
    => /\ DOMAIN ret.resp = DeviceInfoFields
       /\ \A k \in DOMAIN ret.resp : ret.resp[k] = 0

\* C14: when the accelerator is unavailable, initialize returns True for
\* either preferred device and the runner it installs is on the cpu.
C14_DeviceSelectionNeverFails ==
  (Returned("initialize") /\ ~cuda_is_available)
    => /\ ret.ok
       /\ _model_runner # 0
       /\ runners[_model_runner].device = "cpu"

\* C15: the device of a runner never changes after its construction: no
\* step of any call, successful or failed, alters it.
C15_DeviceFixed ==
  [][\A r \in DOMAIN runners :
       /\ r \in DOMAIN runners'
       /\ runners'[r].device = runners[r].device]_vars

\* a load on a runner that is on the accelerator failed at the move to the
\* device
C15_Witness ==
  /\ Returned("load_model") /\ ~ret.ok
  /\ ret.frame.trace = <<"to_raised">>
  /\ runners[ret.frame.self].device = "cuda"

\* the step is thread t entering a bridge entry point
Begins(t) ==
  /\ frame[t].pc = "idle"
  /\ ncalls' = ncalls + 1
  /\ ret'.thread = t \/ frame'[t].pc # "idle"

\* the entry point and arguments of the call that thread t enters
NewOp(t) == IF ret'.thread = t THEN ret'.frame.op ELSE frame'[t].op

\* the request is not JSON for an object, has a field that InferenceConfig
\* does not have, or lacks model_id
Malformed(req) ==
  \/ ~req.json_ok
  \/ \E k \in DOMAIN req.dict : k \notin ConfigFields
  \/ "model_id" \notin DOMAIN req.dict

\* C16: a generate request that is malformed is answered in the step that
\* receives it with success=false: the orchestrator's generate_image is not
\* entered, no device or pipe call is made, and the registry, the global
\* and the memory counter stay as they were.
C16_MalformedRejected ==
  [][\A t \in Threads :
       (/\ Begins(t)
        /\ NewOp(t).name = "generate_image"
        /\ Malformed(NewOp(t).req))
       => /\ ret'.thread = t
          /\ ~ret'.raised
          /\ ret'.resp.success = FALSE
          /\ ret'.frame.pc = "idle"
          /\ ret'.frame.result = InferenceResult
          /\ ret'.frame.trace = <<>>
          /\ runners' = runners
          /\ _model_runner' = _model_runner
          /\ allocated' = allocated]_vars

\* a request with the unknown field "steps" was rejected while m1 was loaded
C16_Witness ==
  /\ Returned("generate_image")
  /\ "steps" \in DOMAIN ret.frame.op.req.dict
  /\ ret.frame.self # 0
  /\ has(ret.post, "m1")
  /\ ret.resp.success = FALSE

\* the external calls of a generate that ran to the end, on the accelerator
\* and on the cpu
CudaTrace ==
  <<"synchronize", "memory_allocated", "pipe",
    "synchronize", "memory_allocated">>

CpuTrace == <<"pipe">>

\* generate returned success from a runner on device d
Succeeded(d) ==
  /\ Returned("generate_image")
  /\ ret.frame.result.success
  /\ runners[ret.frame.self].device = d

\* C17 as stated: on the accelerator a successful generate reports the
\* second snapshot minus the first in bytes, the calls being synchronize,
\* snapshot, pipe, synchronize, snapshot; on the cpu it reports 0.  (The
\* second snapshot is the counter in the state in which the call returns.)
C17_DeltaInBytes ==
  /\ Succeeded("cuda") =>
       /\ ret.frame.trace = CudaTrace
       /\ ret.frame.result.memory_used = allocated - ret.frame.mem_before
  /\ Succeeded("cpu") =>
       /\ ret.frame.trace = CpuTrace
       /\ ret.frame.result.memory_used = 0

\* m is the number of bytes d in whole MB, rounded toward zero
IsTruncatedMB(m, d) ==
  /\ d >= 0 => (m >= 0 /\ m * MiB <= d /\ d < (m + 1) * MiB)
  /\ d < 0 => (m <= 0 /\ m * MiB >= d /\ d > (m - 1) * MiB)

\* C17 amended: on the accelerator a successful generate reports the second
\* snapshot minus the first in whole MB, rounded toward zero, the calls
\* being synchronize, snapshot, pipe, synchronize, snapshot; on the cpu it
\* reports 0.
C17_DeltaInMB ==
  /\ Succeeded("cuda") =>
       /\ ret.frame.trace = CudaTrace
       /\ IsTruncatedMB(ret.frame.result.memory_used,
                        allocated - ret.frame.mem_before)
  /\ Succeeded("cpu") =>
       /\ ret.frame.trace = CpuTrace
       /\ ret.frame.result.memory_used = 0

\* the counter fell by 1.5 MB across a successful run, reported as -1
C17_Witness ==
  /\ Succeeded("cuda")
  /\ ret.frame.mem_before = 1572864
  /\ allocated = 0
  /\ ret.frame.result.memory_used = -1

\* this step is a step of a generate call of thread t
GenerateStep(t) ==
  \/ Begins(t) /\ NewOp(t).name = "generate_image"
  \/ /\ frame[t].pc # "idle"
     /\ frame[t].op.name = "generate_image"
     /\ frame'[t] # frame[t]

\* C18: no step of a generate call, whatever its configuration and its
\* outcome (not loaded, execution fault, success), changes any cache: the
\* loaded identifiers and the handle and type stored for each stay as they
\* were, and the orchestrator stays the same object.
C18_GenerateKeepsRegistry ==
  [][\A t \in Threads :
       GenerateStep(t) => (runners' = runners /\ _model_runner' = _model_runner)
    ]_vars

\* the execution object faulted and the model is still in the cache
C18_Witness ==
  /\ Returned("generate_image")
  /\ ret.frame.result.error_message = <<"execution fault">>
  /\ has(ret.post, ret.frame.op.model_id)
  /\ ret.frame.op.model_id \in DOMAIN ret.post.model_types

\* the outcome of the call that thread t begins in this step is a failure:
\* False from load_model and unload_model, success=false from generate_image
FailsAtOnce(t) ==
  /\ ret'.thread = t
  /\ ~ret'.raised
  /\ IF NewOp(t).name = "generate_image"
       THEN ret'.resp.success = FALSE
       ELSE ~ret'.ok

\* C19: while _model_runner is None no orchestrator has been constructed,
\* and a load_model, unload_model or generate_image call fails in its first
\* step (False, False, success=false) and leaves the global, the runners and
\* the memory counter as they were; an initialize that then succeeds
\* installs an orchestrator whose cache is empty.
C19_UninitializedFailsClean ==
  [][/\ _model_runner = 0 => runners = <<>>
     /\ \A t \in Threads :
          (Begins(t) /\ _model_runner = 0) =>
            /\ NewOp(t).name \in {"load_model", "unload_model",
                                  "generate_image"}
                 => /\ FailsAtOnce(t)
                    /\ _model_runner' = 0
                    /\ runners' = <<>>
                    /\ allocated' = allocated
            /\ (NewOp(t).name = "initialize" /\ ret'.ok)
                 => /\ _model_runner' # 0
                    /\ runners'[_model_runner'].cache = ModelCache
    ]_vars

\* a well-formed load of a supported type, with both libraries present,
\* was refused because nothing was initialized
C19_Witness ==
  /\ Returned("load_model")
  /\ ret.frame.self = 0
  /\ ret.frame.op.model_type = TEXT_TO_IMAGE
  /\ TORCH_AVAILABLE /\ DIFFUSERS_AVAILABLE
  /\ ~ret.ok
  /\ runners = <<>>

\* no thread is between the two statements of ModelCache.add or of
\* ModelCache.remove on runner r
NoneMidUpdate(r) ==
  \A t \in Threads :
    frame[t].self = r => frame[t].pc \notin {"add_model_types", "del_model_types"}

\* C20: whenever no add or remove is between its two statements, the
\* models dict and the model_types dict of every cache have the same keys:
\* an identifier has a model if and only if it has a type.
C20_SameKeys ==
  \A r \in DOMAIN runners :
    NoneMidUpdate(r) =>
      DOMAIN runners[r].cache.models = DOMAIN runners[r].cache.model_types
====
